---- MODULE Spec2Model ----
(***************************************************************************)
(* Model of the Gist backend: the readability service                      *)
(* (readabilityService.FetchReadableContent / fetchWithChrome) and the     *)
(* refresh scheduler (scheduler.Scheduler).                                *)
(***************************************************************************)
EXTENDS Integers, Sequences, FiniteSets, TLC

(***************************************************************************)
(* Bounds                                                                  *)
(***************************************************************************)
\* cap on the refresh cycles of one scheduler run
MaxCycles == 3
\* the configured intervals tried, in time units
MaxInterval == 3
\* cap on the count of ticks fired during one cycle
MaxMissed == 2
\* cap on the HTTP GETs of one call (the recursion of fetchWithChrome)
MaxGets == 3
\* cap on the rows of the folders table
MaxFolders == 2
Intervals == 1..MaxInterval

\* the concurrent callers of FetchReadableContent
Calls == {"c1", "c2"}

(***************************************************************************)
(* Optional values (Go pointers): Nil or Some(v)                           *)
(***************************************************************************)
Nil == <<>>
Some(v) == <<v>>
Deref(p) == p[1]

(***************************************************************************)
(* URLs are strings, modelled as sequences of one-byte strings.            *)
(***************************************************************************)
UrlHttp == <<"h","t","t","p",":","/","/","a">>
UrlHttpsUpper == <<"H","T","T","P","S",":","/","/","b">>
UrlFile == <<"f","i","l","e",":","/","/","/","x">>
UrlFtp == <<"f","t","p",":","/","/","a">>
UrlNoScheme == <<"a","/","b">>
UrlSlashes == <<"/","/","a">>
UrlColonFirst == <<":","a">>
UrlCtl == <<"h","t","t","p",":","/","/","a","\n">>

URLSamples == {UrlHttp, UrlHttpsUpper, UrlFile, UrlFtp, UrlNoScheme,
               UrlSlashes, UrlColonFirst, UrlCtl}

Letters == {"a","b","e","f","h","i","l","p","s","t","x","H","P","S","T"}
SchemeExtra == {"0","1","+","-","."}
CtlBytes == {"\n"}

\* strings.ToLower on one byte
ToLowerByte(c) ==
  CASE c = "H" -> "h"
    [] c = "T" -> "t"
    [] c = "P" -> "p"
    [] c = "S" -> "s"
    [] OTHER -> c

ToLower(s) == [i \in 1..Len(s) |-> ToLowerByte(s[i])]

\* net/url getScheme: scan until ':' ; result [err, scheme]
RECURSIVE getSchemeFrom(_, _)
getSchemeFrom(rawURL, i) ==
  IF i > Len(rawURL) THEN [err |-> FALSE, scheme |-> <<>>]
  ELSE LET c == rawURL[i] IN
    CASE c \in Letters -> getSchemeFrom(rawURL, i + 1)
      [] c \in SchemeExtra ->
           IF i = 1 THEN [err |-> FALSE, scheme |-> <<>>]
           ELSE getSchemeFrom(rawURL, i + 1)
      [] c = ":" ->
           IF i = 1 THEN [err |-> TRUE, scheme |-> <<>>]
           ELSE [err |-> FALSE, scheme |-> SubSeq(rawURL, 1, i - 1)]
      [] OTHER -> [err |-> FALSE, scheme |-> <<>>]

\* the host of an http-like URL: the bytes between "//" and the next "/"
RECURSIVE hostFrom(_, _)
hostFrom(s, i) ==
  IF i > Len(s) \/ s[i] = "/" THEN <<>>
  ELSE <<s[i]>> \o hostFrom(s, i + 1)

\* url.Parse: [err, Scheme, Host]
urlParse(rawURL) ==
  IF \E i \in 1..Len(rawURL) : rawURL[i] \in CtlBytes
  THEN [err |-> TRUE, Scheme |-> <<>>, Host |-> <<>>]
  ELSE LET g == getSchemeFrom(rawURL, 1)
           n == Len(g.scheme)
           rest == IF n = 0 THEN rawURL ELSE SubSeq(rawURL, n + 2, Len(rawURL))
       IN [err |-> g.err,
           Scheme |-> ToLower(g.scheme),
           Host |-> IF Len(rest) >= 2 /\ rest[1] = "/" /\ rest[2] = "/"
                    THEN hostFrom(rest, 3) ELSE <<>>]

SchemeHttp == <<"h","t","t","p">>
SchemeHttps == <<"h","t","t","p","s">>

(***************************************************************************)
(* Response bodies and the sanitize / extract / render pipeline.           *)
(* A body records whether it carries the Anubis challenge signature,       *)
(* whether it contains script elements and which article text it holds.    *)
(***************************************************************************)
Texts == {"", "t1", "t2"}
Bodies == [chal : BOOLEAN, script : BOOLEAN, text : Texts]
NoBody == [chal |-> FALSE, script |-> FALSE, text |-> ""]

\* anubis.IsAnubisChallenge: signature match on the body
IsAnubisChallenge(body) == body.chal

\* bluemonday Policy.Sanitize: script elements are removed
Sanitize(body) == [body EXCEPT !.script = FALSE]

\* article.RenderHTML: the rendered article of a parsed document
RenderHTML(doc) ==
  IF doc.text = "" THEN ""
  ELSE IF doc.script THEN "<script>" \o doc.text ELSE doc.text

(***************************************************************************)
(* Errors                                                                  *)
(***************************************************************************)
ErrNone == "nil"
ErrNotFound == "ErrNotFound"
ErrInvalid == "ErrInvalid"
ErrFeedFetch == "ErrFeedFetch"
ErrChallengeUnsolvable == "ChallengeUnsolvable"
ErrDB == "db error"
ErrRequest == "request failed"
ErrStatus == "HTTP status"
ErrSolve == "anubis solve failed"
ErrParseURL == "parse URL failed"
ErrParseContent == "parse content failed"
ErrRender == "render failed"
ErrCancelled == "context canceled"
ErrConflict == "ErrConflict"

\* http.StatusOK, and the statuses a server answers with
StatusOK == 200
\* a status other than 200
StatusForbidden == 403
Statuses == {StatusOK, StatusForbidden}
Responses == [status : Statuses, body : Bodies]

(***************************************************************************)
(* State                                                                   *)
(***************************************************************************)
\* the ids of the stored entries, and the ids callers ask for
StoredIDs == {1}
RequestIDs == {1, 2}
\* cookie strings; the solver issues the non-empty ones
Cookies == {"", "k1", "k2"}
IssuedCookies == Cookies \ {""}
Hosts == {<<"a">>, <<"b">>}

VARIABLES
  entries,      \* the entries table: id -> [URL, ReadableContent]
  anubis,       \* s.anubis != nil
  cookieCache,  \* the Anubis solver's per-host cookie cache
  call,         \* one record per FetchReadableContent caller
  folders,      \* the folders table: id -> [name, parentID]
  feeds,        \* the feeds table: the set of stored feed URLs
  fcall,        \* the last FolderService call and its outcome
  imp,          \* the OPML Import call and its transaction
  sched         \* the Scheduler, its loop goroutine and its ticker

fetchVars == <<entries, anubis, cookieCache, call>>
libVars == <<folders, feeds, fcall, imp>>
vars == <<entries, anubis, cookieCache, call, sched, folders, feeds, fcall, imp>>

IdleCall ==
  [pc |-> "idle", entryID |-> 0, entry |-> Nil, cookie |-> "",
   header |-> "", body |-> NoBody, content |-> "", ret |-> "", err |-> ErrNone,
   hit |-> FALSE, gets |-> 0, solves |-> 0, updates |-> 0, lookups |-> 0,
   allChal |-> TRUE, reChal |-> FALSE, rendered |-> Nil,
   cancelled |-> FALSE, status |-> 0]

\* scheduler.New(refreshService, interval)
New(interval) ==
  [interval |-> interval, stopCh |-> "open", wg |-> 0,
   started |-> FALSE, stop |-> "idle", run |-> "none",
   ticker |-> FALSE, elapsed |-> 0, tick |-> FALSE,
   inflight |-> 0, cycles |-> 0, failed |-> FALSE,
   late |-> FALSE, missed |-> 0, sinceFire |-> 0]

InitFetch ==
  /\ \E u \in {Nil} \cup {Some(x) : x \in URLSamples \cup {<<>>}},
        rc \in {Nil, Some(""), Some("old")} :
       entries = [i \in StoredIDs |-> [URL |-> u, ReadableContent |-> rc]]
  /\ anubis \in BOOLEAN
  /\ cookieCache = [h \in Hosts |-> ""]
  /\ call = [c \in Calls |-> IdleCall]

\* no FolderService call made yet
NoFCall ==
  [op |-> "none", id |-> 0, name |-> <<>>, parentID |-> Nil, err |-> ErrNone]

\* the zero ImportResult
ZeroResult ==
  [FoldersCreated |-> 0, FoldersSkipped |-> 0, FeedsCreated |-> 0, FeedsSkipped |-> 0]

\* no Import call in progress
IdleImport ==
  [pc |-> "idle", todo |-> <<>>, txFolders |-> <<>>, txFeeds |-> {},
   beforeFolders |-> <<>>, beforeFeeds |-> {},
   result |-> ZeroResult, ret |-> ZeroResult, err |-> ErrNone]

\* an empty library
InitLib ==
  /\ folders = <<>>
  /\ feeds = {}
  /\ fcall = NoFCall
  /\ imp = IdleImport

Init ==
  /\ InitFetch
  /\ sched = New(1)
  /\ InitLib

(***************************************************************************)
(* readabilityService.FetchReadableContent                                 *)
(***************************************************************************)
\* the call returns: the call-local values are dropped, the outcome is kept
Return(r, value, e) ==
  [r EXCEPT !.pc = "done", !.ret = value, !.err = e, !.cookie = "",
            !.header = "", !.body = NoBody, !.content = "", !.cancelled = FALSE]

\* a caller invokes FetchReadableContent(ctx, entryID)
Call(c) ==
  /\ call[c].pc = "idle"
  /\ \E id \in RequestIDs :
       call' = [call EXCEPT ![c] = [IdleCall EXCEPT !.pc = "load", !.entryID = id]]
  /\ UNCHANGED <<entries, anubis, cookieCache, sched, libVars>>

\* the caller cancels ctx while the call is in progress
Cancel(c) ==
  /\ call[c].pc \notin {"idle", "done"}
  /\ ~call[c].cancelled
  /\ call' = [call EXCEPT ![c].cancelled = TRUE]
  /\ UNCHANGED <<entries, anubis, cookieCache, sched, libVars>>

\* variant: the cache test is skipped
CachedContentNever(e) == FALSE

\* the cached-content test
CachedContent(e) == e.ReadableContent # Nil /\ Deref(e.ReadableContent) # ""

\* the URL test
URLMissing(e) == e.URL = Nil \/ Deref(e.URL) = <<>>

\* variant: the URL is validated before the cache is looked at
AfterLoadURLFirst(l, e) ==
  IF URLMissing(e)
  THEN Return(l, "", ErrInvalid)
  ELSE IF CachedContent(e)
  THEN Return([l EXCEPT !.hit = TRUE], Deref(e.ReadableContent), ErrNone)
  ELSE [l EXCEPT !.pc = "fetch", !.cookie = ""]

\* the checks on the loaded entry: cached content first, then the URL
AfterLoad(l, e) ==
  IF CachedContent(e)
  THEN Return([l EXCEPT !.hit = TRUE], Deref(e.ReadableContent), ErrNone)
  ELSE IF URLMissing(e)
  THEN Return(l, "", ErrInvalid)
  ELSE [l EXCEPT !.pc = "fetch", !.cookie = ""]

\* entries.GetByID followed by the cache and URL checks; with ctx already
\* cancelled the query fails with the context's error
GetByID(c) ==
  LET r == call[c] IN
  /\ r.pc = "load"
  /\ \/ /\ r.cancelled
        /\ call' = [call EXCEPT ![c] = Return(r, "", ErrCancelled)]
     \/ /\ ~r.cancelled
        /\ call' = [call EXCEPT ![c] = Return(r, "", ErrDB)]
     \/ /\ ~r.cancelled
        /\ r.entryID \notin DOMAIN entries
        /\ call' = [call EXCEPT ![c] = Return(r, "", ErrNotFound)]
     \/ /\ ~r.cancelled
        /\ r.entryID \in DOMAIN entries
        /\ LET e == entries[r.entryID]
               l == [r EXCEPT !.entry = Some(e)]
           IN call' = [call EXCEPT ![c] = AfterLoad(l, e)]
  /\ UNCHANGED <<entries, anubis, cookieCache, sched, libVars>>

TargetURL(r) == Deref(Deref(r.entry).URL)

\* the scheme test of fetchWithChrome
SchemeAllowed(scheme) == scheme = SchemeHttp \/ scheme = SchemeHttps

\* anubis.GetCachedCookie(ctx, host)
GetCachedCookie(host) == IF host \in Hosts THEN cookieCache[host] ELSE ""

\* variant: the cached cookie wins over the explicit one
CookieHeaderCacheFirst(r, host) ==
  IF anubis /\ GetCachedCookie(host) # "" THEN GetCachedCookie(host)
  ELSE r.cookie

\* the Cookie header: the explicit cookie, else the cached one, else none
CookieHeader(r, host) ==
  IF r.cookie # "" THEN r.cookie
  ELSE IF anubis THEN GetCachedCookie(host)
  ELSE ""

\* whether GetCachedCookie is called
CacheConsulted(r) == r.cookie = "" /\ anubis

\* fetchWithChrome up to the request: URL validation and the Cookie header
BuildRequest(c) ==
  LET r == call[c]
      parsedURL == urlParse(TargetURL(r))
  IN
  /\ r.pc = "fetch"
  /\ call' = [call EXCEPT ![c] =
       IF parsedURL.err THEN Return(r, "", ErrFeedFetch)
       ELSE IF ~SchemeAllowed(parsedURL.Scheme) THEN Return(r, "", ErrInvalid)
       ELSE [r EXCEPT !.pc = "do",
                      !.lookups = IF CacheConsulted(r) THEN @ + 1 ELSE @,
                      !.header = CookieHeader(r, parsedURL.Host)]]
  /\ UNCHANGED <<entries, anubis, cookieCache, sched, libVars>>

\* the challenge test of fetchWithChrome
ChallengeDetected(r, body) == anubis /\ r.cookie = "" /\ IsAnubisChallenge(body)

\* the response accepted: challenge test, else the body is the result
Accept(g, resp) ==
  LET h == [g EXCEPT !.body = resp.body, !.status = resp.status,
                     !.allChal = @ /\ resp.status = StatusOK /\ resp.body.chal,
                     !.reChal = (g.solves > 0 /\ resp.body.chal)]
  IN IF ChallengeDetected(g, resp.body)
     THEN [h EXCEPT !.pc = "solve"]
     ELSE [h EXCEPT !.pc = "extract"]

\* variant: the challenge test comes before the status test
HandleResponseChallengeFirst(g, resp) ==
  IF ChallengeDetected(g, resp.body) THEN Accept(g, resp)
  ELSE IF resp.status # StatusOK
  THEN Return([g EXCEPT !.allChal = FALSE, !.status = resp.status], "", ErrStatus)
  ELSE Accept(g, resp)

\* the handling of a response: status test, then Accept
HandleResponse(g, resp) ==
  IF resp.status # StatusOK
  THEN Return([g EXCEPT !.allChal = FALSE, !.status = resp.status], "", ErrStatus)
  ELSE Accept(g, resp)

\* session.Do and the handling of the response; the request carries no
\* context, so a cancelled ctx does not stop it
Do(c) ==
  LET r == call[c]
      g == [r EXCEPT !.gets = @ + 1]
  IN
  /\ r.pc = "do"
  /\ r.gets < MaxGets
  /\ \/ call' = [call EXCEPT ![c] = Return([g EXCEPT !.allChal = FALSE], "", ErrRequest)]
     \/ \E resp \in Responses :
          call' = [call EXCEPT ![c] = HandleResponse(g, resp)]
  /\ UNCHANGED <<entries, anubis, cookieCache, sched, libVars>>

\* anubis.SolveFromBody and the retry with the new cookie
Solve(c) ==
  LET r == call[c]
      s == [r EXCEPT !.solves = @ + 1]
      host == urlParse(TargetURL(r)).Host
  IN
  /\ r.pc = "solve"
  /\ \/ /\ call' = [call EXCEPT ![c] = Return(s, "", ErrSolve)]
        /\ UNCHANGED cookieCache
     \/ \E newCookie \in IssuedCookies :
          /\ ~r.cancelled
          /\ call' = [call EXCEPT ![c] = [s EXCEPT !.pc = "fetch", !.cookie = newCookie]]
          /\ cookieCache' = IF host \in Hosts
                            THEN [cookieCache EXCEPT ![host] = newCookie]
                            ELSE cookieCache
  /\ UNCHANGED <<entries, anubis, sched, libVars>>

\* SolveFromBody reports success with an empty cookie string; the retry
\* then runs with cookie == ""
SolveEmpty(c) ==
  LET r == call[c] IN
  /\ r.pc = "solve"
  /\ ~r.cancelled
  /\ call' = [call EXCEPT ![c] = [r EXCEPT !.solves = @ + 1, !.pc = "fetch",
                                           !.cookie = ""]]
  /\ UNCHANGED <<entries, anubis, cookieCache, sched, libVars>>

\* variant: the body is handed to the parser unsanitized
sanitizedRaw(body) == body

\* sanitized := s.sanitizer.Sanitize(string(body))
sanitized(body) == Sanitize(body)

\* variant: empty content is not rejected
ContentEmptyNever(content) == FALSE

\* the empty-content test
ContentEmpty(content) == content = ""

\* sanitize, parse with readability, render
Extract(c) ==
  LET r == call[c]
      content == RenderHTML(sanitized(r.body))
  IN
  /\ r.pc = "extract"
  /\ \/ /\ urlParse(TargetURL(r)).err
        /\ call' = [call EXCEPT ![c] = Return(r, "", ErrParseURL)]
     \/ /\ ~urlParse(TargetURL(r)).err
        /\ \/ call' = [call EXCEPT ![c] = Return(r, "", ErrParseContent)]
           \/ call' = [call EXCEPT ![c] = Return(r, "", ErrRender)]
           \/ LET d == [r EXCEPT !.rendered = Some(content)] IN
              call' = [call EXCEPT ![c] =
                IF ContentEmpty(content) THEN Return(d, "", ErrInvalid)
                ELSE [d EXCEPT !.pc = "persist", !.content = content]]
  /\ UNCHANGED <<entries, anubis, cookieCache, sched, libVars>>

\* entries.UpdateReadableContent(ctx, entryID, content)
UpdateReadableContent(id, content) ==
  [entries EXCEPT ![id].ReadableContent = Some(content)]

\* save to the database and return the content
Persist(c) ==
  LET r == call[c]
      u == [r EXCEPT !.updates = @ + 1]
  IN
  /\ r.pc = "persist"
  /\ \/ /\ ~r.cancelled
        /\ entries' = UpdateReadableContent(r.entryID, r.content)
        /\ call' = [call EXCEPT ![c] = Return(u, r.content, ErrNone)]
     \/ /\ ~r.cancelled
        /\ call' = [call EXCEPT ![c] = Return(u, "", ErrDB)]
        /\ UNCHANGED entries
     \/ /\ r.cancelled
        /\ call' = [call EXCEPT ![c] = Return(u, "", ErrCancelled)]
        /\ UNCHANGED entries
  /\ UNCHANGED <<anubis, cookieCache, sched, libVars>>

\* the caller takes the result; it may call again
Done(c) ==
  /\ call[c].pc = "done"
  /\ call' = [call EXCEPT ![c] = IdleCall]
  /\ UNCHANGED <<entries, anubis, cookieCache, sched, libVars>>

\* one step of caller c
Step(c) ==
  \/ Call(c)
  \/ Cancel(c)
  \/ GetByID(c)
  \/ BuildRequest(c)
  \/ Do(c)
  \/ Solve(c)
  \/ Extract(c)
  \/ Persist(c)
  \/ Done(c)

Next == \E c \in Calls : Step(c)

Spec == Init /\ [][Next]_vars

\* one caller, and a solver that may also report success with no cookie
SoloCalls == {"c1"}

EmptyCookieNext ==
  \E c \in SoloCalls :
    \/ Step(c)
    \/ SolveEmpty(c)

EmptyCookieSpec == Init /\ [][EmptyCookieNext]_vars

(***************************************************************************)
(* scheduler.Scheduler                                                     *)
(***************************************************************************)
\* Start(): wg.Add(1); go s.run()
Start ==
  /\ ~sched.started
  /\ sched.stop = "idle"
  /\ sched' = [sched EXCEPT !.started = TRUE, !.wg = @ + 1, !.run = "entry"]
  /\ UNCHANGED <<fetchVars, libVars>>

\* Stop(): close(s.stopCh), then wait on the wait group
Stop ==
  /\ sched.started
  /\ sched.stop = "idle"
  /\ sched' = [sched EXCEPT !.stopCh = "closed", !.stop = "waiting"]
  /\ UNCHANGED <<fetchVars, libVars>>

\* variant: Stop() does not join the loop
WaitDoneNoJoin == TRUE

\* wg.Wait() may return
WaitDone == sched.wg = 0

\* Stop() returns
StopReturn ==
  /\ sched.stop = "waiting"
  /\ WaitDone
  /\ sched' = [sched EXCEPT !.stop = "returned"]
  /\ UNCHANGED <<fetchVars, libVars>>

\* refresh(): the RefreshAll call is issued.  cycles counts the calls up to
\* MaxCycles, late tells whether stopCh was closed when the call was issued,
\* missed counts the ticks fired during the call
BeginRefresh(s, pc) ==
  [s EXCEPT !.run = pc, !.inflight = @ + 1,
            !.cycles = IF @ < MaxCycles THEN @ + 1 ELSE @,
            !.late = (s.stopCh = "closed"), !.missed = 0]

\* variant: run() goes straight to the ticker
RunEntryNoRefresh ==
  /\ sched.run = "entry"
  /\ sched' = [sched EXCEPT !.run = "ticker"]
  /\ UNCHANGED <<fetchVars, libVars>>

\* run(): "Run immediately on start"
RunEntry ==
  /\ sched.run = "entry"
  /\ sched' = BeginRefresh(sched, "refreshing0")
  /\ UNCHANGED <<fetchVars, libVars>>

\* variant: an error of RefreshAll ends run()
RefreshReturnExitOnError ==
  /\ sched.inflight > 0
  /\ \E e \in BOOLEAN :
       sched' = IF e
                THEN [sched EXCEPT !.inflight = @ - 1, !.failed = TRUE,
                                   !.run = "exited", !.ticker = FALSE, !.wg = @ - 1]
                ELSE [sched EXCEPT !.inflight = @ - 1, !.failed = FALSE,
                        !.run = CASE @ = "refreshing0" -> "ticker"
                                  [] @ = "refreshing" -> "select"
                                  [] OTHER -> @]
  /\ UNCHANGED <<fetchVars, libVars>>

\* RefreshAll returns, with or without an error (a deadline error included);
\* refresh() logs it and returns to run()
RefreshReturn ==
  /\ sched.inflight > 0
  /\ \E e \in BOOLEAN :
       sched' = [sched EXCEPT !.inflight = @ - 1, !.failed = e,
                   !.run = CASE @ = "refreshing0" -> "ticker"
                             [] @ = "refreshing" -> "select"
                             [] OTHER -> @]
  /\ UNCHANGED <<fetchVars, libVars>>

\* ticker := time.NewTicker(s.interval)
NewTicker ==
  /\ sched.run = "ticker"
  /\ sched' = [sched EXCEPT !.run = "select", !.ticker = TRUE, !.elapsed = 0,
                            !.tick = FALSE]
  /\ UNCHANGED <<fetchVars, libVars>>

\* time passes; every interval the ticker sends on its one-slot channel,
\* dropping the tick when the slot is full
Advance ==
  /\ sched.ticker
  /\ sched' = IF sched.elapsed + 1 >= sched.interval
              THEN [sched EXCEPT !.elapsed = 0, !.tick = TRUE, !.sinceFire = 0,
                      !.missed = IF sched.inflight > 0 /\ @ < MaxMissed
                                 THEN @ + 1 ELSE @]
              ELSE [sched EXCEPT !.elapsed = @ + 1]
  /\ UNCHANGED <<fetchVars, libVars>>

\* variant: the tick case runs the refresh in a goroutine of its own
SelectTickGo ==
  /\ sched.run = "select"
  /\ sched.tick
  /\ sched' = BeginRefresh([sched EXCEPT !.tick = FALSE, !.sinceFire = @ + 1],
                           "select")
  /\ UNCHANGED <<fetchVars, libVars>>

\* variant: the tick is not taken off the channel
SelectTickKeepTick ==
  /\ sched.run = "select"
  /\ sched.tick
  /\ sched' = BeginRefresh([sched EXCEPT !.sinceFire = @ + 1], "refreshing")
  /\ UNCHANGED <<fetchVars, libVars>>

\* variant: the loop refreshes whether or not a tick is pending
SelectTickAlways ==
  /\ sched.run = "select"
  /\ sched' = BeginRefresh([sched EXCEPT !.tick = FALSE, !.sinceFire = @ + 1],
                           "refreshing")
  /\ UNCHANGED <<fetchVars, libVars>>

\* select, case <-ticker.C: s.refresh()
SelectTick ==
  /\ sched.run = "select"
  /\ sched.tick
  /\ sched' = BeginRefresh([sched EXCEPT !.tick = FALSE, !.sinceFire = @ + 1],
                           "refreshing")
  /\ UNCHANGED <<fetchVars, libVars>>

\* variant: run() returns without wg.Done
SelectStopNoDone ==
  /\ sched.run = "select"
  /\ sched.stopCh = "closed"
  /\ sched' = [sched EXCEPT !.run = "exited", !.ticker = FALSE]
  /\ UNCHANGED <<fetchVars, libVars>>

\* select, case <-s.stopCh: return (deferred ticker.Stop and wg.Done run)
SelectStop ==
  /\ sched.run = "select"
  /\ sched.stopCh = "closed"
  /\ sched' = [sched EXCEPT !.run = "exited", !.ticker = FALSE, !.wg = @ - 1]
  /\ UNCHANGED <<fetchVars, libVars>>

SchedNext ==
  \/ Start
  \/ Stop
  \/ StopReturn
  \/ RunEntry
  \/ RefreshReturn
  \/ NewTicker
  \/ Advance
  \/ SelectTick
  \/ SelectStop

SchedInit ==
  /\ entries = [i \in StoredIDs |-> [URL |-> Nil, ReadableContent |-> Nil]]
  /\ anubis = FALSE
  /\ cookieCache = [h \in Hosts |-> ""]
  /\ call = [c \in Calls |-> IdleCall]
  /\ InitLib
  /\ \E i \in Intervals : sched = New(i)

SchedSpec == SchedInit /\ [][SchedNext]_vars

\* The loop goroutine is scheduled, every RefreshAll call returns, and select
\* picks among its ready cases at random, so the stop case is not passed
\* over forever.
SchedFairness ==
  /\ WF_vars(RunEntry)
  /\ WF_vars(RefreshReturn)
  /\ WF_vars(NewTicker)
  /\ SF_vars(SelectStop)
  /\ WF_vars(StopReturn)

FairSchedSpec == SchedSpec /\ SchedFairness

\* Start() called with no loop goroutine alive, whatever Stop() did before
StartAny ==
  /\ sched.run \in {"none", "exited"}
  /\ sched' = [sched EXCEPT !.started = TRUE, !.wg = @ + 1, !.run = "entry"]
  /\ UNCHANGED <<fetchVars, libVars>>

\* Stop() called for the first time, whether or not Start() was called
StopAny ==
  /\ sched.stop = "idle"
  /\ sched' = [sched EXCEPT !.stopCh = "closed", !.stop = "waiting"]
  /\ UNCHANGED <<fetchVars, libVars>>

SchedAnyNext ==
  \/ StartAny
  \/ StopAny
  \/ StopReturn
  \/ RunEntry
  \/ RefreshReturn
  \/ NewTicker
  \/ Advance
  \/ SelectTick
  \/ SelectStop

\* the scheduler under callers that do not keep to Start-then-Stop
SchedAnySpec == SchedInit /\ [][SchedAnyNext]_vars

(***************************************************************************)
(* folderService: Create and Update over the folders table.  A table is a  *)
(* sequence of rows [name, parentID]; the id of a row is its index.        *)
(***************************************************************************)
\* unicode.IsSpace on the bytes used here
Whitespace == {" ", "\t", "\n"}

RECURSIVE TrimLeft(_)
TrimLeft(s) ==
  IF s # <<>> /\ Head(s) \in Whitespace THEN TrimLeft(Tail(s)) ELSE s

RECURSIVE TrimRight(_)
TrimRight(s) ==
  IF s # <<>> /\ s[Len(s)] \in Whitespace
  THEN TrimRight(SubSeq(s, 1, Len(s) - 1)) ELSE s

\* strings.TrimSpace
TrimSpace(s) == TrimRight(TrimLeft(s))

\* the name arguments of the calls
NameSamples ==
  {<<>>, <<" ">>, <<"a">>, <<" ", "a">>, <<"a", " ">>, <<"b">>, <<"\t", "b", "\n">>}

\* the id and parentID arguments of the calls: stored and absent ids
IDArgs == 1..(MaxFolders + 1)
ParentArgs == {Nil} \cup {Some(i) : i \in IDArgs}

\* FolderRepository.GetByID: the row, or Nil for sql.ErrNoRows
FoldersGetByID(t, id) == IF id \in DOMAIN t THEN Some(t[id]) ELSE Nil

\* FolderRepository.FindByName: the id of the row with that name under that
\* parent, or Nil
FindByName(t, name, parentID) ==
  LET m == {i \in DOMAIN t : t[i].name = name /\ t[i].parentID = parentID}
  IN IF m = {} THEN Nil ELSE Some(CHOOSE i \in m : \A j \in m : i <= j)

\* FolderRepository.Create
FoldersCreate(t, name, parentID) ==
  Append(t, [name |-> name, parentID |-> parentID])

\* FolderRepository.Update
FoldersUpdate(t, id, name, parentID) ==
  [t EXCEPT ![id] = [name |-> name, parentID |-> parentID]]

\* variant: Create without the name lookup
CreateCheckNoLookup(trimmed, parentID) ==
  IF trimmed = <<>> THEN ErrInvalid
  ELSE IF parentID # Nil /\ FoldersGetByID(folders, Deref(parentID)) = Nil
  THEN ErrNotFound
  ELSE ErrNone

\* the validations of Create, in the order of the code
CreateCheck(trimmed, parentID) ==
  IF trimmed = <<>> THEN ErrInvalid
  ELSE IF parentID # Nil /\ FoldersGetByID(folders, Deref(parentID)) = Nil
  THEN ErrNotFound
  ELSE IF FindByName(folders, trimmed, parentID) # Nil THEN ErrConflict
  ELSE ErrNone

\* folderService.Create(ctx, name, parentID)
Create ==
  \E name \in NameSamples, parentID \in ParentArgs :
    LET trimmed == TrimSpace(name)
        c == [op |-> "Create", id |-> 0, name |-> trimmed,
              parentID |-> parentID, err |-> ErrNone]
    IN
    /\ \/ /\ trimmed # <<>>
          /\ fcall' = [c EXCEPT !.err = ErrDB]
          /\ UNCHANGED folders
       \/ /\ CreateCheck(trimmed, parentID) # ErrNone
          /\ fcall' = [c EXCEPT !.err = CreateCheck(trimmed, parentID)]
          /\ UNCHANGED folders
       \/ /\ CreateCheck(trimmed, parentID) = ErrNone
          /\ Len(folders) < MaxFolders
          /\ folders' = FoldersCreate(folders, trimmed, parentID)
          /\ fcall' = [c EXCEPT !.id = Len(folders) + 1]
    /\ UNCHANGED <<fetchVars, sched, feeds, imp>>

\* the validations of Update, in the order of the code
UpdateCheck(id, trimmed, parentID) ==
  IF trimmed = <<>> THEN ErrInvalid
  ELSE IF parentID # Nil /\ Deref(parentID) = id THEN ErrInvalid
  ELSE IF parentID # Nil /\ FoldersGetByID(folders, Deref(parentID)) = Nil
  THEN ErrNotFound
  ELSE IF FoldersGetByID(folders, id) = Nil THEN ErrNotFound
  ELSE IF /\ FindByName(folders, trimmed, parentID) # Nil
          /\ Deref(FindByName(folders, trimmed, parentID)) # id
  THEN ErrConflict
  ELSE ErrNone

\* folderService.Update(ctx, id, name, parentID)
Update ==
  \E id \in IDArgs, name \in NameSamples, parentID \in ParentArgs :
    LET trimmed == TrimSpace(name)
        c == [op |-> "Update", id |-> id, name |-> trimmed,
              parentID |-> parentID, err |-> ErrNone]
    IN
    /\ \/ /\ trimmed # <<>>
          /\ parentID # Some(id)
          /\ fcall' = [c EXCEPT !.err = ErrDB]
          /\ UNCHANGED folders
       \/ /\ UpdateCheck(id, trimmed, parentID) # ErrNone
          /\ fcall' = [c EXCEPT !.err = UpdateCheck(id, trimmed, parentID)]
          /\ UNCHANGED folders
       \/ /\ UpdateCheck(id, trimmed, parentID) = ErrNone
          /\ folders' = FoldersUpdate(folders, id, trimmed, parentID)
          /\ fcall' = c
    /\ UNCHANGED <<fetchVars, sched, feeds, imp>>

FolderNext == Create \/ Update

FolderInit ==
  /\ entries = [i \in StoredIDs |-> [URL |-> Nil, ReadableContent |-> Nil]]
  /\ anubis = FALSE
  /\ cookieCache = [h \in Hosts |-> ""]
  /\ call = [c \in Calls |-> IdleCall]
  /\ sched = New(1)
  /\ InitLib

FolderSpec == FolderInit /\ [][FolderNext]_vars

(***************************************************************************)
(* opmlService.Import.  The transaction works on its own image of the two  *)
(* tables (txFolders, txFeeds); folders and feeds are the committed state. *)
(* A feed row is [URL, FolderID, Title].                                   *)
(***************************************************************************)
Untitled == <<"U", "n", "t", "i", "t", "l", "e", "d">>
FeedTypes == {<<"r", "s", "s">>, <<"a", "t", "o", "m">>, <<"f", "e", "e", "d">>}

\* outlines of the sample documents
FeedOutline(title, url) ==
  [Title |-> title, Text |-> <<>>, Type |-> <<" ", "r", "S", "s">>,
   XMLURL |-> url, Outlines |-> <<>>]
FolderOutline(title, text, outlines) ==
  [Title |-> title, Text |-> text, Type |-> <<>>, XMLURL |-> <<>>,
   Outlines |-> outlines]

\* a folder holding a feed and a sub-folder with a feed, then a feed whose
\* URL repeats the first one
DocNested ==
  << FolderOutline(<<"a">>, <<>>,
       << FeedOutline(<<"t">>, <<"u">>),
          FolderOutline(<<>>, <<"b">>, << FeedOutline(<<>>, <<"v">>) >>) >>),
     FeedOutline(<<>>, <<" ", "u">>) >>

\* a root feed, a folder without a title holding a feed outline without a
\* URL, and an empty folder
DocFlat ==
  << FeedOutline(<<>>, <<"v">>),
     FolderOutline(<<" ">>, <<>>, << FeedOutline(<<"t">>, <<>>) >>),
     FolderOutline(<<"a">>, <<>>, <<>>) >>

Documents == {DocNested, DocFlat}

isFeedOutline(outline) ==
  \/ TrimSpace(outline.XMLURL) # <<>>
  \/ ToLower(TrimSpace(outline.Type)) \in FeedTypes

pickOutlineTitle(outline) ==
  IF TrimSpace(outline.Title) # <<>> THEN outline.Title ELSE outline.Text

\* FeedRepository.FindByURL found a row
FindByURL(t, url) == \E f \in t : f.URL = url

\* the work list entries for the outlines of one level
Children(outlines, parentID) ==
  [k \in 1..Len(outlines) |-> [outline |-> outlines[k], parentID |-> parentID]]

\* the Import call ends with an error
Failed(i, e) == [i EXCEPT !.pc = "done", !.err = e, !.ret = ZeroResult]

\* importFeed: the Import records that can follow
importFeed(i, outline, folderID) ==
  LET feedURL == TrimSpace(outline.XMLURL)
      title == IF TrimSpace(outline.Title) # <<>> THEN TrimSpace(outline.Title)
               ELSE IF TrimSpace(outline.Text) # <<>> THEN TrimSpace(outline.Text)
               ELSE feedURL
      feed == [URL |-> feedURL, FolderID |-> folderID, Title |-> title]
      skipped == [i EXCEPT !.result.FeedsSkipped = @ + 1]
  IN IF feedURL = <<>> THEN {skipped}
     ELSE {Failed(i, ErrDB)} \cup
          (IF FindByURL(i.txFeeds, feedURL) THEN {skipped}
           ELSE {skipped,
                 [i EXCEPT !.txFeeds = @ \cup {feed},
                           !.result.FeedsCreated = @ + 1]})

\* ensureFolder and the descent into the folder's outlines
importFolder(i, outline, parentID) ==
  LET title == pickOutlineTitle(outline)
      name == IF TrimSpace(title) = <<>> THEN Untitled ELSE title
      existing == FindByName(i.txFolders, name, parentID)
  IN {Failed(i, ErrDB)} \cup
     (IF existing # Nil
      THEN {[i EXCEPT !.result.FoldersSkipped = @ + 1,
                      !.todo = Children(outline.Outlines, existing) \o @]}
      ELSE {[i EXCEPT !.txFolders = FoldersCreate(@, name, parentID),
                      !.result.FoldersCreated = @ + 1,
                      !.todo = Children(outline.Outlines,
                                        Some(Len(i.txFolders) + 1)) \o @]})

\* importOutline on the next outline of the work list
importOutline(i) ==
  LET h == Head(i.todo)
      rest == [i EXCEPT !.todo = Tail(@)]
  IN IF isFeedOutline(h.outline)
     THEN importFeed(rest, h.outline, h.parentID)
     ELSE importFolder(rest, h.outline, h.parentID)

\* variant: the writes of the transaction stay in the tables
RollbackKeepsWrites(i) == [folders |-> i.txFolders, feeds |-> i.txFeeds]

\* tx.Rollback: the tables are what they were
Rollback(i) == [folders |-> folders, feeds |-> feeds]

\* Import up to the loop: opml.Parse and BeginTx
Import ==
  LET begun == [imp EXCEPT !.txFolders = folders, !.txFeeds = feeds,
                           !.beforeFolders = folders, !.beforeFeeds = feeds]
  IN
  /\ imp.pc = "idle"
  /\ \/ imp' = Failed(begun, ErrInvalid)
     \/ imp' = Failed(begun, ErrDB)
     \/ \E doc \in Documents :
          imp' = [begun EXCEPT !.pc = "loop", !.todo = Children(doc, Nil)]
  /\ UNCHANGED <<fetchVars, sched, folders, feeds, fcall>>

\* one outline imported; an error rolls the transaction back
ImportStep ==
  /\ imp.pc = "loop"
  /\ imp.todo # <<>>
  /\ \E j \in importOutline(imp) :
       /\ imp' = j
       /\ IF j.pc = "done"
          THEN /\ folders' = Rollback(j).folders
               /\ feeds' = Rollback(j).feeds
          ELSE UNCHANGED <<folders, feeds>>
  /\ UNCHANGED <<fetchVars, sched, fcall>>

\* tx.Commit after the last outline
Commit ==
  /\ imp.pc = "loop"
  /\ imp.todo = <<>>
  /\ \/ /\ imp' = Failed(imp, ErrDB)
        /\ UNCHANGED <<folders, feeds>>
     \/ /\ imp' = [imp EXCEPT !.pc = "done", !.ret = imp.result]
        /\ folders' = imp.txFolders
        /\ feeds' = imp.txFeeds
  /\ UNCHANGED <<fetchVars, sched, fcall>>

\* the caller has the result; the next Import may begin
ImportReturn ==
  /\ imp.pc = "done"
  /\ imp' = IdleImport
  /\ UNCHANGED <<fetchVars, sched, folders, feeds, fcall>>

ImportNext == Import \/ ImportStep \/ Commit \/ ImportReturn

ImportSpec == FolderInit /\ [][ImportNext]_vars

(***************************************************************************)
(* Properties                                                              *)
(***************************************************************************)
StoredContent(e) == IF e.ReadableContent = Nil THEN "" ELSE Deref(e.ReadableContent)
Loaded(c) == call[c].entry # Nil
LoadedContent(c) == StoredContent(Deref(call[c].entry))
\* fetchWithChrome was entered by the call
Fetched(c) ==
  /\ Loaded(c)
  /\ LoadedContent(c) = ""
  /\ Deref(call[c].entry).URL \notin {Nil, Some(<<>>)}
WellFormedHTTP(u) == ~urlParse(u).err /\ urlParse(u).Scheme \in {SchemeHttp, SchemeHttps}

\* C1: a call that loads an entry with non-empty stored readable-content
\* returns exactly that string with no error, and has issued no HTTP request,
\* no solver call, no cache lookup and no UpdateReadableContent; this holds
\* for every call, also a repeated one.
C1_CacheFirst ==
  \A c \in Calls :
    (Loaded(c) /\ LoadedContent(c) # "") =>
      /\ call[c].pc = "done"
      /\ call[c].ret = LoadedContent(c)
      /\ call[c].err = ErrNone
      /\ call[c].gets = 0 /\ call[c].solves = 0 /\ call[c].updates = 0
      /\ call[c].lookups = 0

\* a call after an earlier call persisted: it returns the persisted string
C1_Witness ==
  \E c \in Calls : call[c].pc = "done" /\ call[c].hit /\ call[c].ret \in {"t1", "t2"}

\* C2: once an entry's readable-content is non-empty, no step changes it.
C2_NeverOverwritten ==
  [][\A id \in StoredIDs :
       StoredContent(entries[id]) # "" =>
         entries'[id].ReadableContent = entries[id].ReadableContent]_vars

\* C3: a call all of whose fetches returned a challenge page (HTTP 200) has,
\* when it returns, called the solver exactly once and failed with a
\* challenge-unsolvable error.
C3_SolveOnceThenFail ==
  \A c \in Calls :
    (anubis /\ call[c].pc = "done" /\ call[c].gets >= 1 /\ call[c].allChal) =>
      /\ call[c].solves = 1
      /\ call[c].err \in {ErrChallengeUnsolvable, ErrSolve}

\* C4: when the re-fetch after a successful solve returned a challenge page,
\* the call does not call UpdateReadableContent.
C4_NoPersistAfterSecondChallenge ==
  \A c \in Calls : call[c].reChal => call[c].updates = 0

\* C8: a fetch of a URL that is not a well-formed http/https URL fails with
\* InvalidInput, with no HTTP request and no cookie cache lookup.
C8_BadURLInvalid ==
  \A c \in Calls :
    (Fetched(c) /\ ~WellFormedHTTP(TargetURL(call[c]))) =>
      /\ call[c].pc \in {"fetch", "done"}
      /\ call[c].gets = 0 /\ call[c].lookups = 0
      /\ call[c].pc = "done" => call[c].err = ErrInvalid

\* the number of UpdateReadableContent calls of one call
C9_UpdatesBounded == \A c \in Calls : call[c].updates <= 1

\* what a step may do to the stored entries
C9_StepOK ==
  /\ \A c \in Calls :
       call'[c].updates > call[c].updates =>
         /\ call[c].pc = "persist"
         /\ call[c].content = RenderHTML(Sanitize(call[c].body))
         /\ call[c].rendered = Some(call[c].content)
  /\ \A id \in StoredIDs :
       entries'[id] # entries[id] =>
         \E c \in Calls :
           /\ call[c].pc = "persist" /\ call[c].entryID = id
           /\ call'[c].updates = call[c].updates + 1
           /\ call'[c].err = ErrNone
           /\ entries'[id].ReadableContent = Some(call[c].content)
  /\ \A c \in Calls :
       (call'[c].pc = "done" /\ call[c].pc # "done" /\ call'[c].err # ErrNone) =>
         entries' = entries

\* C9: a call calls UpdateReadableContent at most once, only from the persist
\* step that follows a successful fetch, sanitization, extraction and
\* rendering, with the rendered output of the sanitized body; a step on which
\* a call returns an error leaves the stored entries unchanged.
C9_PersistOnceAfterSuccess == []C9_UpdatesBounded /\ [][C9_StepOK]_vars

\* a body with a script element is about to be persisted, sanitized
C9_Witness ==
  \E c \in Calls :
    call[c].pc = "persist" /\ call[c].body.script /\ call[c].content = "t1"

\* the outcome of a call whose rendering was empty
C10_EmptyState ==
  \A c \in Calls :
    call[c].rendered = Some("") =>
      /\ call[c].pc = "done"
      /\ call[c].err = ErrInvalid
      /\ call[c].updates = 0

\* no step stores an empty string
C10_EmptyStep ==
  \A id \in StoredIDs :
    entries'[id] # entries[id] => entries'[id].ReadableContent # Some("")

\* C10: when rendering yields the empty string the call fails with
\* InvalidInput without calling UpdateReadableContent, and no step stores an
\* empty string as readable-content.
C10_EmptyNotPersisted == []C10_EmptyState /\ [][C10_EmptyStep]_vars

\* a call whose fetched page rendered to nothing has returned
C10_Witness ==
  \E c \in Calls :
    call[c].rendered = Some("") /\ call[c].pc = "done" /\ call[c].gets = 1

\* the state in which Stop() has returned
C5_StopState ==
  sched.stop = "returned" => (sched.run = "exited" /\ sched.inflight = 0)

\* no cycle starts after Stop() has returned
C5_StopStep ==
  sched.stop = "returned" =>
    (sched'.cycles = sched.cycles /\ sched'.inflight <= sched.inflight)

\* C5: Stop() has returned only if the loop has exited and no RefreshAll call
\* is in flight, and no cycle starts once Stop() has returned.
C5_StopJoinsLoop == []C5_StopState /\ [][C5_StopStep]_vars

\* Stop() returned after a run that was stopped while a tick-driven cycle ran
C5_Witness == sched.stop = "returned" /\ sched.cycles >= 2

\* C6: when the loop creates its ticker and begins to wait, exactly one
\* RefreshAll call has been issued and it has returned; none is issued before
\* run() starts, for every interval.
C6_OneCycleBeforeFirstTick ==
  /\ sched.run \in {"none", "entry"} => sched.cycles = 0
  /\ sched.run = "refreshing0" => (sched.cycles = 1 /\ ~sched.ticker)
  /\ sched.run = "ticker" =>
       (sched.cycles = 1 /\ sched.inflight = 0 /\ ~sched.ticker)
  /\ (sched.run = "select" /\ sched.ticker /\ sched.cycles <= 1) => sched.cycles = 1

\* the loop waits for its first tick, with an interval longer than one unit
C6_Witness ==
  sched.run = "select" /\ sched.cycles = 1 /\ sched.interval > 1 /\ ~sched.tick

\* C7: at most one RefreshAll call of the scheduler is in progress.
C7_OneCycleAtATime == sched.inflight <= 1

\* a tick is pending while a cycle is still running
C7_Witness == sched.inflight = 1 /\ sched.run = "refreshing" /\ sched.tick

\* C11: after a cycle whose RefreshAll call returned an error, and while
\* stopCh is open, the loop is still alive, and when it selects with a tick
\* pending the tick case can start a new cycle.
C11_FailedCycleKeepsLoop ==
  (sched.failed /\ sched.stopCh = "open") =>
    /\ sched.run \in {"ticker", "select", "refreshing"}
    /\ (sched.run = "select" /\ sched.tick) => ENABLED SelectTick

\* a tick-driven cycle runs after a cycle that failed
C11_Witness ==
  /\ sched.failed /\ sched.stopCh = "open"
  /\ sched.run = "refreshing" /\ sched.cycles >= 2

\* C13: once Stop() has returned, no RefreshAll call is issued, also when
\* Start() is called afterwards or Stop() was called before any Start().
C13_StoppedIsTerminal ==
  [][sched.stop = "returned" => ~(sched'.inflight > sched.inflight)]_vars

\* C14: once Stop() has been called on a started scheduler, the loop
\* eventually exits and Stop() eventually returns.
C14_StopEventuallyReturns ==
  (sched.stop = "waiting") ~> (sched.stop = "returned" /\ sched.run = "exited")

\* Stop() has returned although a tick was pending when the loop selected
C14_Witness == sched.stop = "returned" /\ sched.tick /\ sched.cycles >= 2

\* between two fires of the ticker at most one tick-driven cycle starts
C19_State == sched.sinceFire <= 1

\* a cycle starts only when no cycle is running
C19_Step == sched'.inflight > sched.inflight => sched.inflight = 0

\* C19: ticks that fire while a cycle runs do not accumulate: however many
\* fired, at most one cycle starts before the ticker fires again, and it
\* starts only after the running cycle has finished.
C19_TicksDoNotAccumulate == []C19_State /\ [][C19_Step]_vars

\* a cycle that spanned two ticks has finished; one tick is pending
C19_Witness ==
  sched.missed >= 2 /\ sched.run = "select" /\ sched.tick /\ sched.inflight = 0

\* C20: once stopCh is closed no new refresh cycle starts.
C20_NoCycleAfterStopCalled == ~sched.late

\* C20 as amended: a cycle that starts after stopCh was closed is the initial
\* cycle of run() or takes a pending tick at the select; it starts while
\* Stop() is still waiting, and Stop() returns only when no cycle is running.
C20_Step ==
  (sched.stopCh = "closed" /\ sched'.inflight > sched.inflight) =>
    /\ sched.stop = "waiting"
    /\ \/ sched.run = "entry"
       \/ sched.run = "select" /\ sched.tick /\ ~sched'.tick

\* C20 (amended): see C20_Step; Stop() has returned only with no cycle running.
C20_LateCycleOnlyFromTick ==
  [](sched.stop = "returned" => sched.inflight = 0) /\ [][C20_Step]_vars

\* Stop() has returned after a cycle that started when stopCh was closed
C20_Witness == sched.late /\ sched.stop = "returned" /\ sched.cycles >= 2

\* a step of a call that stands before its GET with ctx cancelled: the GET is
\* not issued and the call ends with the cancellation error, nothing written
C12_CancelledStep ==
  \A c \in Calls :
    (call[c].cancelled /\ call[c].pc = "do" /\ call'[c] # call[c]) =>
      /\ call'[c].gets = call[c].gets
      /\ call'[c].pc = "done"
      /\ call'[c].err = ErrCancelled
      /\ call'[c].updates = 0

\* C12: when the caller's context is cancelled before the HTTP GET of the
\* entry's URL, the request is not issued, the call returns a cancellation
\* error and nothing is persisted.
C12_CancelStopsGet == [][C12_CancelledStep]_vars

\* the cache's cookie for the host of the URL that call c fetches
C15_Cached(c) ==
  LET host == urlParse(TargetURL(call[c])).Host
  IN IF host \in Hosts THEN cookieCache[host] ELSE ""

C15_Step ==
  \A c \in Calls :
    (call[c].pc = "fetch" /\ call'[c].pc = "do") =>
      /\ call'[c].header =
           IF call[c].cookie # "" THEN call[c].cookie
           ELSE IF anubis /\ C15_Cached(c) # "" THEN C15_Cached(c)
           ELSE ""
      /\ call'[c].lookups =
           call[c].lookups + (IF call[c].cookie = "" /\ anubis THEN 1 ELSE 0)

\* C15: the Cookie header of each GET is the explicit override cookie when it
\* is non-empty, and the host cache is then not consulted; otherwise the
\* cache's cookie for the URL's host when non-empty; otherwise none.
C15_CookiePrecedence == [][C15_Step]_vars

\* a retry is about to be sent with the solved cookie while the host cache
\* holds a different one; the cache was looked up once, on the first attempt
C15_Witness ==
  \E c \in Calls :
    /\ call[c].pc = "do"
    /\ call[c].cookie = "k1"
    /\ call[c].header = "k1"
    /\ C15_Cached(c) = "k2"
    /\ call[c].lookups = 1

\* C16: whatever the server answers and whatever the solver returns, also
\* success with an empty cookie, one call issues at most two HTTP GETs and
\* at most one SolveFromBody call.
C16_TwoGetsOneSolve ==
  \A c \in Calls : call[c].gets <= 2 /\ call[c].solves <= 1

\* C17: a response with a status other than 200 ends the call with the status
\* error, whatever its body: no solver call and no further GET follow it, and
\* nothing is persisted.
C17_Non200Fails ==
  \A c \in Calls :
    call[c].status \notin {0, StatusOK} =>
      /\ call[c].pc = "done"
      /\ call[c].err = ErrStatus
      /\ call[c].ret = ""
      /\ call[c].updates = 0
      /\ call[c].gets = call[c].solves + 1

\* the retry after a solved challenge was answered with a non-200 status
C17_Witness ==
  \E c \in Calls :
    /\ call[c].status = StatusForbidden
    /\ call[c].pc = "done"
    /\ call[c].gets = 2
    /\ call[c].solves = 1

\* the URL of the entry loaded by call c is missing or empty
C18_NoURL(c) == Deref(call[c].entry).URL \in {Nil, Some(<<>>)}

\* C18: the checks run in the order load, cache, URL: an absent entry gives
\* NotFound; cached non-empty content is returned even when the URL is missing
\* or empty; no cached content and a missing or empty URL give InvalidInput;
\* none of the three issues an HTTP request or a write.
C18_LoadCacheURL ==
  \A c \in Calls :
    call[c].pc = "done" =>
      /\ (call[c].entryID \notin DOMAIN entries
            /\ call[c].err \notin {ErrDB, ErrCancelled}) =>
           /\ call[c].err = ErrNotFound
           /\ call[c].gets = 0 /\ call[c].updates = 0
      /\ (Loaded(c) /\ LoadedContent(c) # "") =>
           /\ call[c].err = ErrNone
           /\ call[c].ret = LoadedContent(c)
           /\ call[c].gets = 0 /\ call[c].updates = 0
      /\ (Loaded(c) /\ LoadedContent(c) = "" /\ C18_NoURL(c)) =>
           /\ call[c].err = ErrInvalid
           /\ call[c].gets = 0 /\ call[c].updates = 0

\* cached content was returned for an entry without a URL
C18_Witness ==
  \E c \in Calls :
    /\ call[c].pc = "done"
    /\ Loaded(c) /\ C18_NoURL(c)
    /\ call[c].ret = "old" /\ call[c].err = ErrNone

\* the folder reached from folder i by following k parentID links, or Nil
RECURSIVE Climb(_, _, _)
Climb(t, i, k) ==
  IF k = 0 THEN Some(i)
  ELSE IF t[i].parentID = Nil THEN Nil
  ELSE Climb(t, Deref(t[i].parentID), k - 1)

\* C21: the folder hierarchy is acyclic: following parentID links from any
\* folder reaches a root and never returns to the starting folder.
C21_Acyclic ==
  \A i \in DOMAIN folders :
    /\ \A k \in 1..Len(folders) : Climb(folders, i, k) # Some(i)
    /\ \E k \in 1..Len(folders) : Climb(folders, i, k) = Nil

\* no two distinct folders have the same name under the same parent, and
\* every stored name is trimmed
C22_Unique ==
  \A i, j \in DOMAIN folders :
    /\ TrimSpace(folders[i].name) = folders[i].name
    /\ (i # j) =>
         ~(folders[i].name = folders[j].name
           /\ folders[i].parentID = folders[j].parentID)

\* another folder holds the name and parent that the call asks for
C22_Taken(c) ==
  \E j \in DOMAIN folders :
    /\ j # c.id
    /\ folders[j].name = c.name
    /\ folders[j].parentID = c.parentID

\* a call returns ErrConflict only for a taken (name, parent) and then
\* changes nothing; a valid call for a taken pair stores nothing; an Update
\* of a folder onto its own current name and parent is not a conflict
C22_Step ==
  /\ fcall'.err = ErrConflict => (folders' = folders /\ C22_Taken(fcall'))
  /\ (fcall' # fcall /\ C22_Taken(fcall') /\ fcall'.name # <<>>
        /\ (fcall'.op = "Update" => fcall'.id \in DOMAIN folders)
        /\ (fcall'.parentID # Nil =>
              /\ Deref(fcall'.parentID) \in DOMAIN folders
              /\ Deref(fcall'.parentID) # fcall'.id)) =>
       (fcall'.err \in {ErrConflict, ErrDB} /\ folders' = folders)
  /\ (/\ fcall' # fcall
      /\ fcall'.op = "Update"
      /\ fcall'.id \in DOMAIN folders
      /\ folders[fcall'.id] = [name |-> fcall'.name, parentID |-> fcall'.parentID]) =>
       (fcall'.err \in {ErrNone, ErrDB} /\ folders' = folders)

\* C22: after any sequence of non-overlapping Create and Update calls no two
\* distinct folders have the same trimmed name under the same parent; a call
\* that would create such a pair returns ErrConflict and changes nothing;
\* updating a folder onto its own current name and parent is allowed.
C22_UniqueNames == []C22_Unique /\ [][C22_Step]_vars

\* an Update that would give a folder the name and parent of another folder
\* was refused
C22_Witness ==
  /\ fcall.op = "Update"
  /\ fcall.err = ErrConflict
  /\ fcall.id \in DOMAIN folders
  /\ C22_Taken(fcall)

\* C23: OPML Import is all-or-nothing: while the import runs and after it
\* failed (an outline or the commit) the tables hold what they held when it
\* began and the call returns the zero ImportResult with the error; rows are
\* stored only when every outline was processed and the commit succeeded.
C23_AllOrNothing ==
  /\ imp.pc = "loop" =>
       (folders = imp.beforeFolders /\ feeds = imp.beforeFeeds)
  /\ (imp.pc = "done" /\ imp.err # ErrNone) =>
       /\ folders = imp.beforeFolders /\ feeds = imp.beforeFeeds
       /\ imp.ret = ZeroResult
  /\ (imp.pc = "done" /\ imp.err = ErrNone) =>
       /\ imp.todo = <<>>
       /\ folders = imp.txFolders /\ feeds = imp.txFeeds
       /\ imp.ret = imp.result

\* an Import failed after its transaction had created a folder and a feed
C23_Witness ==
  /\ imp.pc = "done"
  /\ imp.err = ErrDB
  /\ Len(imp.txFolders) > Len(imp.beforeFolders)
  /\ imp.txFeeds # imp.beforeFeeds

TypeOK ==
  /\ anubis \in BOOLEAN
  /\ \A c \in Calls : call[c].cancelled \in BOOLEAN
  /\ \A c \in Calls : call[c].status \in {0} \cup Statuses
  /\ \A c \in Calls : call[c].gets \in 0..MaxGets

====
